---- MODULE Spec2Model ----
\* Model of api/common/conf_azure.go: AzureBlobConfig (the blob configuration
\* resolver) and AzureAuthorizerConfig.Authorizer (the authorizer chain) with
\* the helpers azureDefaultSubscription, azureAccountsClient, azureFindAccount
\* and tokenToAuthorizer.  Go strings are TLA+ strings; indices follow Go
\* (0-based, -1 for "not found").
EXTENDS Integers, Sequences, FiniteSets, TLC

\* ---------------------------------------------------------------------------
\* Bounds of the model (lengths of the lists the collaborators hand out).
MaxSubs == 2
MaxTokens == 2
MaxAccounts == 2
MaxKeys == 2

\* ---------------------------------------------------------------------------
\* Go string helpers (package strings).

\* s[lo:hi] of Go.
Slice(s, lo, hi) == SubSeq(s, lo + 1, hi)

\* s[i] of Go, as a one-character string.
CharAt(s, i) == SubSeq(s, i + 1, i + 1)

RECURSIVE IndexFrom(_, _, _)
IndexFrom(s, c, i) ==
    IF i >= Len(s) THEN -1
    ELSE IF CharAt(s, i) = c THEN i
    ELSE IndexFrom(s, c, i + 1)

\* strings.Index(s, c) for a one-character c.
Index(s, c) == IndexFrom(s, c, 0)

RECURSIVE LastIndexFrom(_, _, _)
LastIndexFrom(s, c, i) ==
    IF i < 0 THEN -1
    ELSE IF CharAt(s, i) = c THEN i
    ELSE LastIndexFrom(s, c, i - 1)

\* strings.LastIndex(s, c) for a one-character c.
LastIndex(s, c) == LastIndexFrom(s, c, Len(s) - 1)

\* strings.HasPrefix(s, p).
HasPrefix(s, p) == Len(s) >= Len(p) /\ Slice(s, 0, Len(p)) = p

RECURSIVE TrimLeft(_, _)
TrimLeft(s, c) ==
    IF Len(s) > 0 /\ CharAt(s, 0) = c THEN TrimLeft(Slice(s, 1, Len(s)), c)
    ELSE s

RECURSIVE TrimRight(_, _)
TrimRight(s, c) ==
    IF Len(s) > 0 /\ CharAt(s, Len(s) - 1) = c
    THEN TrimRight(Slice(s, 0, Len(s) - 1), c)
    ELSE s

\* strings.Trim(s, c) for a one-character cutset c.
Trim(s, c) == TrimRight(TrimLeft(s, c), c)

\* ---------------------------------------------------------------------------
\* net/url as the code uses it (url.Parse, URL.Path, URL.Hostname).  The
\* strings of the model hold no '#', '?', '%', '[' or control bytes, so the
\* fragment, query, escape and IPv6 branches of the parser never apply.

Letters ==
    {"a", "b", "c", "d", "e", "f", "g", "h", "i", "j", "k", "l", "m",
     "n", "o", "p", "q", "r", "s", "t", "u", "v", "w", "x", "y", "z"}

Digits == {"0", "1", "2", "3", "4", "5", "6", "7", "8", "9"}

\* Bytes url.unescape accepts unescaped in a host name.
HostChars == Letters \cup Digits \cup {"-", "_", ".", "~", ":", "+", ",", ";", "="}

\* Bytes url.validUserinfo accepts.
UserinfoChars == Letters \cup Digits \cup {"-", "_", ".", "~", ":", "+", ",", ";", "=", "@"}

RECURSIVE AllIn(_, _)
AllIn(s, chars) ==
    \/ Len(s) = 0
    \/ CharAt(s, 0) \in chars /\ AllIn(Slice(s, 1, Len(s)), chars)

\* url.getScheme: (scheme, rest) or an error.
RECURSIVE GetSchemeFrom(_, _)
GetSchemeFrom(raw, i) ==
    IF i >= Len(raw) THEN [ok |-> TRUE, scheme |-> "", rest |-> raw]
    ELSE LET c == CharAt(raw, i) IN
         IF c \in Letters THEN GetSchemeFrom(raw, i + 1)
         ELSE IF c \in Digits \cup {"+", "-", "."}
         THEN IF i = 0 THEN [ok |-> TRUE, scheme |-> "", rest |-> raw]
              ELSE GetSchemeFrom(raw, i + 1)
         ELSE IF c = ":"
         THEN IF i = 0 THEN [ok |-> FALSE, scheme |-> "", rest |-> ""]
              ELSE [ok |-> TRUE, scheme |-> Slice(raw, 0, i),
                    rest |-> Slice(raw, i + 1, Len(raw))]
         ELSE [ok |-> TRUE, scheme |-> "", rest |-> raw]

GetScheme(raw) == GetSchemeFrom(raw, 0)

\* url.validOptionalPort: "" or ":" followed by digits.
ValidOptionalPort(port) ==
    \/ port = ""
    \/ CharAt(port, 0) = ":" /\ AllIn(Slice(port, 1, Len(port)), Digits)

\* url.parseHost.
ParseHostOk(host) ==
    LET colon == LastIndex(host, ":") IN
    /\ colon # -1 => ValidOptionalPort(Slice(host, colon, Len(host)))
    /\ AllIn(host, HostChars)

\* url.parseAuthority: the host after the last '@', the userinfo before it.
ParseAuthority(authority) ==
    LET i == LastIndex(authority, "@")
        host == IF i < 0 THEN authority ELSE Slice(authority, i + 1, Len(authority))
    IN  [ok |-> /\ ParseHostOk(host)
                /\ i >= 0 => AllIn(Slice(authority, 0, i), UserinfoChars),
         host |-> host]

UrlError == [ok |-> FALSE, Scheme |-> "", Host |-> "", Path |-> ""]

\* url.Parse(raw).
ParseURL(raw) ==
    LET sc == GetScheme(raw) IN
    IF ~sc.ok THEN UrlError
    ELSE LET rest == sc.rest IN
         IF ~HasPrefix(rest, "/")
         THEN IF sc.scheme # ""
              THEN \* opaque URL: no host, no path
                   [ok |-> TRUE, Scheme |-> sc.scheme, Host |-> "", Path |-> ""]
              ELSE LET slash == Index(rest, "/")
                       segment == IF slash < 0 THEN rest ELSE Slice(rest, 0, slash)
                   IN  IF Index(segment, ":") # -1 THEN UrlError
                       ELSE [ok |-> TRUE, Scheme |-> "", Host |-> "", Path |-> rest]
         ELSE IF HasPrefix(rest, "//")
                 /\ (sc.scheme # "" \/ ~HasPrefix(rest, "///"))
         THEN LET after == Slice(rest, 2, Len(rest))
                  slash == Index(after, "/")
                  authority == IF slash < 0 THEN after ELSE Slice(after, 0, slash)
                  path == IF slash < 0 THEN "" ELSE Slice(after, slash, Len(after))
                  auth == ParseAuthority(authority)
              IN  IF ~auth.ok THEN UrlError
                  ELSE [ok |-> TRUE, Scheme |-> sc.scheme, Host |-> auth.host,
                        Path |-> path]
         ELSE [ok |-> TRUE, Scheme |-> sc.scheme, Host |-> "", Path |-> rest]

\* URL.Hostname(): the host without a valid port.
Hostname(u) ==
    LET colon == LastIndex(u.Host, ":") IN
    IF colon # -1 /\ ValidOptionalPort(Slice(u.Host, colon, Len(u.Host)))
    THEN Slice(u.Host, 0, colon)
    ELSE u.Host


\* strings.Split(s, sep) in the place of strings.SplitN: n is ignored and
\* the string is split at every sep.
RECURSIVE SplitAll(_, _, _)
SplitAll(s, sep, n) ==
    IF Index(s, sep) < 0 THEN <<s>>
    ELSE <<Slice(s, 0, Index(s, sep))>>
            \o SplitAll(Slice(s, Index(s, sep) + 1, Len(s)), sep, n)

\* strings.SplitN(s, sep, n) for a one-character sep: at most n parts, the
\* last one holding the unsplit remainder.
RECURSIVE SplitN(_, _, _)
SplitN(s, sep, n) ==
    LET i == Index(s, sep) IN
    IF n <= 1 \/ i < 0 THEN <<s>>
    ELSE <<Slice(s, 0, i)>> \o SplitN(Slice(s, i + 1, Len(s)), sep, n - 1)

\* ---------------------------------------------------------------------------
\* Values of the program.

\* A nil error.
Nil == "<nil>"

\* A nil autorest.Authorizer and a nil *cli.Subscription.
NoAuthorizer == [source |-> "<nil>"]

NoSubscription == [nil |-> TRUE]

\* config.Init(): TokenRenewBuffer = 15 * time.Minute, counted in minutes.
TokenRenewBufferMinutes == 15

\* The zero value of AZBlobConfig (the named result "config").
ZeroConfig ==
    [Endpoint |-> "", AccountName |-> "", AccountKey |-> "", SasToken |-> Nil,
     TokenRenewBuffer |-> 0, Container |-> "", Prefix |-> ""]

\* The address the code compares the endpoint with before parsing it.
EmulatorEndpoint == "http://127.0.0.1:8080/devstoreaccount1/"

\* azure.PublicCloud, the fields the code reads.
PublicCloud ==
    [ResourceManagerEndpoint |-> "https://management.azure.com/",
     ActiveDirectoryEndpoint |-> "https://login.microsoftonline.com/",
     StorageEndpointSuffix |-> "core.windows.net"]

\* homedir.Expand("~/.azure").
HomeAzureDir == "/home/user/.azure"

ErrMissingAccount(dir) ==
    "Missing account: configure via AZURE_STORAGE_ACCOUNT or " \o dir \o "/config"

ErrMissingKey(dir) ==
    "Missing key: configure via AZURE_STORAGE_KEY or " \o dir \o "/config"

ErrNoDefaultSubscription == "Unable to find default azure subscription id"

ErrMalformedAccountId(id) == "Malformed account id: " \o id

ErrAccountNotFound(name) == "Azure account not found: " \o name

ErrURLParse == "parse: invalid URL"

\* ---------------------------------------------------------------------------
\* Inputs and collaborator answers the model draws from.

\* The --endpoint argument.
EndpointArgs ==
    {"", EmulatorEndpoint, "https://epacct.blob.core.windows.net",
     "https://.blob.core.windows.net", "https://localhost:8080", "https://bad host"}

\* The wasb argument (the bucket / path hint).
WasbArgs ==
    {"", "cont", "cont@wacct.blob.core.windows.net/dir/sub/",
     "cont@localhost/dir", "cont@127.0.0.1:8080/devstoreaccount1/",
     "c@u@h.x", "cont@bad host/dir"}

EnvAccounts == {"", "envacct"}

EnvKeys == {"", "envkey"}

EnvConfigDirs == {"", "/etc/azure"}

TenantIds == {"", "t1"}

EmptyFn == [x \in {} |-> ""]

\* The "storage" sections an ini file may hold: any subset of the two keys.
StorageSections ==
    {[k \in d |-> IF k = "account" THEN "iniacct" ELSE "inikey"] :
        d \in SUBSET {"account", "key"}}

\* What ini.Load yields: an error, a file without sections, or a file with a
\* "storage" section.
IniFiles ==
    {[loadErr |-> TRUE, sections |-> EmptyFn],
     [loadErr |-> FALSE, sections |-> EmptyFn]}
    \cup {[loadErr |-> FALSE, sections |-> [n \in {"storage"} |-> sec]] :
            sec \in StorageSections}

\* All sequences over elems of length 0..n.
SeqsUpTo(elems, n) == UNION {[1..k -> elems] : k \in 0..n}

Subscriptions ==
    {[ID |-> "sub1", TenantID |-> "t1", IsDefault |-> TRUE],
     [ID |-> "sub2", TenantID |-> "t2", IsDefault |-> TRUE],
     [ID |-> "sub3", TenantID |-> "t3", IsDefault |-> FALSE]}

\* What cli.ProfilePath + cli.LoadProfile yield.
ProfileReads ==
    {[pathErr |-> "cli.ProfilePath failed", loadErr |-> Nil, Subscriptions |-> <<>>],
     [pathErr |-> Nil, loadErr |-> "cli.LoadProfile failed", Subscriptions |-> <<>>]}
    \cup {[pathErr |-> Nil, loadErr |-> Nil, Subscriptions |-> s] :
            s \in SeqsUpTo(Subscriptions, MaxSubs)}

\* A cached CLI token: its authority and whether the conversion steps after
\* url.Parse (ToADALToken, the manual token, EnsureFresh) succeed for it.
Tokens ==
    {[Authority |-> "https://login.microsoftonline.com/t1", Usable |-> TRUE],
     [Authority |-> "https://login.microsoftonline.com/t1", Usable |-> FALSE],
     [Authority |-> "https://login.microsoftonline.com/t2", Usable |-> TRUE]}

\* What cli.LoadTokens yields.
TokenReads ==
    {[loadErr |-> "cli.LoadTokens failed", tokens |-> <<>>]}
    \cup {[loadErr |-> Nil, tokens |-> s] : s \in SeqsUpTo(Tokens, MaxTokens)}

\* What auth.GetSettingsFromEnvironment yields: an error (unknown
\* AZURE_ENVIRONMENT) or the settings, whose Values hold what the process
\* environment sets.
EnvSettingsReads ==
    {[err |-> "auth.GetSettingsFromEnvironment failed", Values |-> EmptyFn]}
    \cup {[err |-> Nil,
           Values |-> [k \in {"Resource", "ActiveDirectoryEndpoint", "ClientID"} |->
                         IF k = "Resource" THEN ""
                         ELSE IF k = "ClientID" THEN cid ELSE ad]] :
            ad \in {"", "https://login.microsoftonline.com//"},
            cid \in {"", "client1"}}

\* Outcome of a client-credential source: no credentials, credentials whose
\* authorizer cannot be built, or an authorizer.
CredOutcomes == {"none", "unusable", "ok"}

StorageAccounts ==
    {[Name |-> "envacct",
      ID |-> "/subscriptions/sub1/resourceGroups/rg1/providers/Microsoft.Storage/storageAccounts/envacct",
      Blob |-> "https://envacct.blob.core.windows.net/"],
     [Name |-> "envacct",
      ID |-> "/sub/rg/providers/x",
      Blob |-> "https://envacct.blob.core.windows.net/"],
     [Name |-> "epacct",
      ID |-> "/subscriptions/sub1/resourceGroups/rg2/providers/Microsoft.Storage/storageAccounts/epacct",
      Blob |-> "https://epacct.blob.core.windows.net/"]}

\* What client.List yields.
ListReads ==
    {[err |-> "client.List failed", Value |-> <<>>]}
    \cup {[err |-> Nil, Value |-> s] : s \in SeqsUpTo(StorageAccounts, MaxAccounts)}

AccountKeys ==
    {[Permissions |-> "Full", Value |-> "A"],
     [Permissions |-> "Read", Value |-> "B"]}

\* What client.ListKeys yields.
ListKeysReads ==
    {[err |-> "client.ListKeys failed", Keys |-> <<>>]}
    \cup {[err |-> Nil, Keys |-> s] : s \in SeqsUpTo(AccountKeys, MaxKeys)}

\* A string that is out of scope (a local before its declaration or after its
\* function returned).
None == "<none>"

\* A struct, slice or result that is out of scope.
Absent == [absent |-> TRUE]


\* ---------------------------------------------------------------------------
\* The functions of conf_azure.go, as operators.

\* AzureBlobConfig, lines 254-265: the "container@host/path" hint.
ParseWasbHint(wasb, ep, cfg) ==
    LET at == Index(wasb, "@") IN
    IF at = -1 THEN [endpoint |-> ep, config |-> cfg]
    ELSE LET storageEndpoint == "https://" \o Slice(wasb, at + 1, Len(wasb))
             u == ParseURL(storageEndpoint)
         IN  IF u.ok
             THEN [endpoint |-> storageEndpoint,
                   config |-> [cfg EXCEPT !.Container = Slice(wasb, 0, at),
                                          !.Prefix = Trim(u.Path, "/")]]
             ELSE [endpoint |-> ep, config |-> cfg]

\* Line 268 without the test of the emulator address.
EndpointNamesAccountEmulatorToo(ep) == ep # ""

\* AzureBlobConfig, line 268: is the account parsed out of the endpoint?
EndpointNamesAccount(ep) == ep # "" /\ ep # EmulatorEndpoint

\* AzureBlobConfig, lines 267-279: the account name from the endpoint's host.
AccountFromEndpoint(ep, acct) ==
    IF EndpointNamesAccount(ep)
    THEN LET u == ParseURL(ep) IN
         IF ~u.ok THEN [err |-> ErrURLParse, account |-> acct]
         ELSE LET dot == Index(Hostname(u), ".") IN
              [err |-> Nil,
               account |-> IF dot # -1 THEN Slice(Hostname(u), 0, dot) ELSE acct]
    ELSE [err |-> Nil, account |-> acct]

\* Line 281 without the test: the ini file is always read.
NeedsConfigFileAlways(acct, k) == TRUE

\* AzureBlobConfig, line 281: is the ini file read?
NeedsConfigFile(acct, k) == acct = "" \/ k = ""

\* Lines 285-298 without the emptiness tests of lines 287 and 293.
IniLookupOverwrites(file, name, cur) ==
    IF /\ ~file.loadErr
       /\ "storage" \in DOMAIN file.sections
       /\ name \in DOMAIN file.sections["storage"]
    THEN file.sections["storage"][name]
    ELSE cur

\* AzureBlobConfig, lines 285-298: the value of "name" in the "storage"
\* section replaces cur only when cur is empty and the file, the section and
\* the key all exist.
IniLookup(file, name, cur) ==
    IF /\ cur = ""
       /\ ~file.loadErr
       /\ "storage" \in DOMAIN file.sections
       /\ name \in DOMAIN file.sections["storage"]
    THEN file.sections["storage"][name]
    ELSE cur

\* Lines 314-315 with the test of the key dropped: every failure of
\* azureFindAccount ends the call with the "missing key" error.
FindFailureFatalAlways(e, k) == e # Nil

\* AzureBlobConfig, lines 314-315: does a failure of azureFindAccount end the
\* call (with the "missing key" error of line 316)?
FindFailureFatal(e, k) == e # Nil /\ k = ""

\* Line 302 with the test dropped.
AccountMissingNever(acct) == FALSE

\* AzureBlobConfig, line 302: is the account still unknown?
AccountMissing(acct) == acct = ""

\* Line 308 with the key test inverted.
NeedsDiscoveryKeySet(ep, k) == ep = "" \/ k # ""

\* AzureBlobConfig, line 308: is the control plane asked?
NeedsDiscovery(ep, k) == ep = "" \/ k = ""

\* Lines 198-202 without the test of IsDefault: the first entry is taken.
FirstEntry(subs, i) == IF i > Len(subs) THEN 0 ELSE i

RECURSIVE FirstDefault(_, _)
FirstDefault(subs, i) ==
    IF i > Len(subs) THEN 0
    ELSE IF subs[i].IsDefault THEN i
    ELSE FirstDefault(subs, i + 1)

\* azureDefaultSubscription, lines 187-205, on what the profile store yields.
azureDefaultSubscription(read) ==
    IF read.pathErr # Nil THEN [sub |-> NoSubscription, err |-> read.pathErr]
    ELSE IF read.loadErr # Nil THEN [sub |-> NoSubscription, err |-> read.loadErr]
    ELSE LET i == FirstDefault(read.Subscriptions, 1) IN
         IF i = 0 THEN [sub |-> NoSubscription, err |-> ErrNoDefaultSubscription]
         ELSE [sub |-> read.Subscriptions[i], err |-> Nil]

\* tokenToAuthorizer, lines 84-103, on the parsed authority u (line 79).
AuthorizerOfToken(t, u) ==
    IF ~u.ok THEN [authorizer |-> NoAuthorizer, err |-> ErrURLParse]
    ELSE IF ~t.Usable THEN [authorizer |-> NoAuthorizer, err |-> "token conversion failed"]
    ELSE [authorizer |-> [source |-> "cli.Token",
                          authority |-> u.Scheme \o "://" \o u.Host,
                          tenant |-> u.Path],
          err |-> Nil]

\* tokenToAuthorizer, lines 78-104.
tokenToAuthorizer(t) == AuthorizerOfToken(t, ParseURL(t.Authority))

\* Authorizer, lines 167-176: the loop over the cached tokens.  err is the
\* variable declared at line 165, which every conversion assigns (line 171);
\* converted lists the positions handed to tokenToAuthorizer.
RECURSIVE ScanTokens(_, _, _, _, _)

\* Lines 171-174 with the loop left at the first failed conversion.
ScanConvertedStops(tokens, authority, i, r, converted) ==
    IF r.err = Nil
    THEN [returned |-> TRUE, authorizer |-> r.authorizer, err |-> Nil,
          converted |-> Append(converted, i)]
    ELSE [returned |-> FALSE, authorizer |-> NoAuthorizer, err |-> r.err,
          converted |-> Append(converted, i)]

\* Lines 171-174: r is what tokenToAuthorizer made of the token at position i.
ScanConverted(tokens, authority, i, r, converted) ==
    IF r.err = Nil
    THEN [returned |-> TRUE, authorizer |-> r.authorizer, err |-> Nil,
          converted |-> Append(converted, i)]
    ELSE ScanTokens(tokens, authority, i + 1, r.err, Append(converted, i))

ScanTokens(tokens, authority, i, e, converted) ==
    IF i > Len(tokens)
    THEN [returned |-> FALSE, authorizer |-> NoAuthorizer, err |-> e, converted |-> converted]
    ELSE IF tokens[i].Authority = authority
    THEN ScanConverted(tokens, authority, i, tokenToAuthorizer(tokens[i]), converted)
    ELSE ScanTokens(tokens, authority, i + 1, e, converted)

\* Lines 140-151 with the error of unusable credentials returned.
CredentialResultPropagates(outcome, source) ==
    IF outcome = "ok"
    THEN [done |-> TRUE, authorizer |-> [source |-> source], err |-> Nil]
    ELSE IF outcome = "unusable"
    THEN [done |-> TRUE, authorizer |-> NoAuthorizer, err |-> "credentials unusable"]
    ELSE [done |-> FALSE, authorizer |-> NoAuthorizer, err |-> Nil]

\* Authorizer, lines 140-144 and 146-151: a client-credential source either
\* yields an authorizer, which is returned, or its error is dropped.
CredentialResult(outcome, source) ==
    IF outcome = "ok"
    THEN [done |-> TRUE, authorizer |-> [source |-> source], err |-> Nil]
    ELSE [done |-> FALSE, authorizer |-> NoAuthorizer, err |-> Nil]

\* Line 127 without the test: the subscription is always looked up.
NeedsTenantLookupAlways(tenant) == TRUE

\* Authorizer, line 127: is the default subscription looked up?
NeedsTenantLookup(tenant) == tenant = ""

\* Authorizer, lines 172-180, on the outcome r of the loop: the authorizer of
\* the loop is returned, an error left by the loop is returned, and otherwise
\* the function goes on.
AfterScan(r) ==
    IF r.returned
    THEN [done |-> TRUE, authorizer |-> r.authorizer, err |-> Nil,
          converted |-> r.converted]
    ELSE IF r.err # Nil
    THEN [done |-> TRUE, authorizer |-> NoAuthorizer, err |-> r.err,
          converted |-> r.converted]
    ELSE [done |-> FALSE, authorizer |-> NoAuthorizer, err |-> Nil,
          converted |-> r.converted]

\* Lines 165-180 with the error of cli.LoadTokens dropped like the error of
\* cli.AccessTokensPath.
TokenStepDropsLoadError(read, authority) ==
    AfterScan(ScanTokens(read.tokens, authority, 1, Nil, <<>>))

\* Authorizer, lines 165-180: the token cache step on what cli.LoadTokens
\* yields.  done tells whether the function returns here (with authorizer and
\* err) or goes on to line 183.
TokenStep(read, authority) ==
    IF read.loadErr # Nil
    THEN [done |-> TRUE, authorizer |-> NoAuthorizer, err |-> read.loadErr, converted |-> <<>>]
    ELSE AfterScan(ScanTokens(read.tokens, authority, 1, Nil, <<>>))

\* Authorizer, lines 159-160.
AdEndpoint(ad, tenant) == Trim(ad, "/") \o "/" \o tenant

\* Authorizer, lines 153-158: the defaults of the settings.
WithDefaults(e) ==
    [e EXCEPT !.Values =
        [k \in DOMAIN e.Values |->
            IF k = "Resource" /\ e.Values[k] = ""
            THEN e.Environment.ResourceManagerEndpoint
            ELSE IF k = "ActiveDirectoryEndpoint" /\ e.Values[k] = ""
            THEN e.Environment.ActiveDirectoryEndpoint
            ELSE e.Values[k]]]

\* msiToAuthorizer, lines 106-124, on env.GetMSI(); usable tells whether the
\* managed-identity endpoint hands out a fresh token.
msiToAuthorizer(mc, usable) ==
    IF ~usable THEN [authorizer |-> NoAuthorizer, err |-> "managed identity failed"]
    ELSE [authorizer |-> [source |-> "msi", resource |-> mc.Resource,
                          clientID |-> mc.ClientID],
          err |-> Nil]

RECURSIVE FindAccountFrom(_, _, _)
FindAccountFrom(accs, name, i) ==
    IF i > Len(accs)
    THEN [endpoint |-> "", resourceGroup |-> "", err |-> ErrAccountNotFound(name)]
    ELSE IF accs[i].Name = name
    THEN LET parts == SplitN(accs[i].ID, "/", 6) IN
         IF Len(parts) # 6
         THEN [endpoint |-> "", resourceGroup |-> "",
               err |-> ErrMalformedAccountId(accs[i].ID)]
         ELSE [endpoint |-> accs[i].Blob, resourceGroup |-> parts[5], err |-> Nil]
    ELSE FindAccountFrom(accs, name, i + 1)

\* azureFindAccount, lines 229-247, on what client.List yields.
azureFindAccount(read, name) ==
    IF read.err # Nil
    THEN [endpoint |-> "", resourceGroup |-> "", err |-> read.err]
    ELSE FindAccountFrom(read.Value, name, 1)

RECURSIVE PreferFull(_, _, _)
PreferFull(keys, i, k) ==
    IF i > Len(keys) THEN k
    ELSE IF keys[i].Permissions = "Full" THEN keys[i].Value
    ELSE PreferFull(keys, i + 1, k)

\* Lines 332-340 with line 340 run only when the loop found no
\* full-permission key.
SelectKeyPrefersFull(keys, k) == PreferFull(keys, 1, keys[1].Value)

\* AzureBlobConfig, lines 332-340: the loop assigns the first full-permission
\* key, line 340 then assigns the first key whatever the loop did.
SelectKey(keys, k) ==
    LET preferred == PreferFull(keys, 1, k) IN
    keys[1].Value

\* AzureBlobConfig, lines 347-352.
SynthesizeEndpoint(ep, acct) ==
    IF ep = ""
    THEN "https://" \o acct \o ".blob." \o PublicCloud.StorageEndpointSuffix
    ELSE ep


\* ---------------------------------------------------------------------------
\* State.

VARIABLES
    entry,          \* the function the caller invokes
    argEndpoint,    \* AzureBlobConfig: parameter endpoint as passed
    argWasb,        \* AzureBlobConfig: parameter wasb
    argTenantId,    \* Authorizer: field TenantId of the receiver as passed
    envAccount,     \* os.Getenv("AZURE_STORAGE_ACCOUNT")
    envKey,         \* os.Getenv("AZURE_STORAGE_KEY")
    envConfigDir,   \* os.Getenv("AZURE_CONFIG_DIR")
    pc,             \* the block of the code that runs next
    endpoint,       \* AzureBlobConfig: parameter endpoint, reassigned by the code
    account,        \* AzureBlobConfig: local account
    key,            \* AzureBlobConfig: local key
    configDir,      \* AzureBlobConfig: local configDir
    config,         \* AzureBlobConfig: named result config
    err,            \* AzureBlobConfig: named result err
    resourceGroup,  \* AzureBlobConfig: local resourceGroup
    client,         \* AzureBlobConfig: local client
    profile,        \* azureDefaultSubscription: what the profile store yielded
    subRet,         \* azureDefaultSubscription: its result
    tenantId,       \* Authorizer: c.TenantId
    env,            \* Authorizer: local env
    adEndpoint,     \* Authorizer: local adEndpoint
    accessTokens,   \* Authorizer: what cli.LoadTokens yielded
    authRet,        \* Authorizer: its result
    accountsRes,    \* azureFindAccount: what client.List yielded
    keysRes,        \* AzureBlobConfig: what client.ListKeys yielded
    calls,          \* the calls made so far, as <<caller, callee>> pairs
    world,          \* concurrent calls: what the collaborators hold
    pargs,          \* concurrent calls: the arguments of each call as passed
    ppc,            \* concurrent calls: the block each call runs next
    frames,         \* concurrent calls: the parameters, locals and named results
    results         \* concurrent calls: what each call returned

\* The state of the concurrent calls.
pairVars == <<world, pargs, ppc, frames, results>>

\* What a single call never assigns: its arguments as passed, the process
\* environment, and the state of the concurrent calls.
inputs ==
    <<entry, argEndpoint, argWasb, argTenantId, envAccount, envKey, envConfigDir,
      pairVars>>

blobVars == <<endpoint, account, key, configDir, config, err, resourceGroup, client>>

subVars == <<profile, subRet>>

authVars == <<tenantId, env, adEndpoint, accessTokens, authRet>>

planeVars == <<accountsRes, keysRes>>

vars == <<inputs, pc, blobVars, subVars, authVars, planeVars, calls>>

\* The caller invokes AzureBlobConfig(endpoint, wasb).
InitBlob ==
    /\ entry = "AzureBlobConfig"
    /\ argEndpoint \in EndpointArgs
    /\ argWasb \in WasbArgs
    /\ argTenantId = None
    /\ envAccount \in EnvAccounts
    /\ envKey \in EnvKeys
    /\ envConfigDir \in EnvConfigDirs
    /\ pc = "GetEnv"
    /\ endpoint = argEndpoint
    /\ config = ZeroConfig
    /\ err = Nil
    /\ tenantId = None

\* The caller invokes AzureAuthorizerConfig{TenantId: t}.Authorizer().
InitAuthorizer ==
    /\ entry = "Authorizer"
    /\ argEndpoint = None
    /\ argWasb = None
    /\ argTenantId \in TenantIds
    /\ envAccount = None
    /\ envKey = None
    /\ envConfigDir = None
    /\ pc = "AuthTenant"
    /\ endpoint = None
    /\ config = Absent
    /\ err = None
    /\ tenantId = argTenantId

Init ==
    /\ InitBlob \/ InitAuthorizer
    /\ world = Absent
    /\ pargs = <<>>
    /\ ppc = <<>>
    /\ frames = <<>>
    /\ results = <<>>
    /\ account = None
    /\ key = None
    /\ configDir = None
    /\ resourceGroup = None
    /\ client = Absent
    /\ profile = Absent
    /\ subRet = Absent
    /\ env = Absent
    /\ adEndpoint = None
    /\ accessTokens = Absent
    /\ authRet = Absent
    /\ accountsRes = Absent
    /\ keysRes = Absent
    /\ calls = <<>>

Called(caller, callee) == Append(calls, <<caller, callee>>)

\* ---------------------------------------------------------------------------
\* AzureBlobConfig.

\* Lines 250-252.
GetEnv ==
    /\ pc = "GetEnv"
    /\ account' = envAccount
    /\ key' = envKey
    /\ configDir' = envConfigDir
    /\ pc' = "ParseWasb"
    /\ UNCHANGED <<inputs, endpoint, config, err, resourceGroup, client,
                   subVars, authVars, planeVars, calls>>

\* Lines 254-265.
ParseWasb ==
    /\ pc = "ParseWasb"
    /\ LET r == ParseWasbHint(argWasb, endpoint, config) IN
        /\ endpoint' = r.endpoint
        /\ config' = r.config
    /\ pc' = "ParseEndpoint"
    /\ UNCHANGED <<inputs, account, key, configDir, err, resourceGroup, client,
                   subVars, authVars, planeVars, calls>>

\* Lines 267-279.
ParseEndpoint ==
    /\ pc = "ParseEndpoint"
    /\ LET r == AccountFromEndpoint(endpoint, account) IN
        /\ err' = r.err
        /\ account' = r.account
        /\ pc' = IF r.err # Nil THEN "Done" ELSE "LoadConfig"
    /\ UNCHANGED <<inputs, endpoint, key, configDir, config, resourceGroup, client,
                   subVars, authVars, planeVars, calls>>

\* Lines 281-300.
LoadConfig ==
    /\ pc = "LoadConfig"
    /\ IF NeedsConfigFile(account, key)
       THEN /\ configDir' = IF configDir = "" THEN HomeAzureDir ELSE configDir
            /\ \E file \in IniFiles :
                /\ account' = IniLookup(file, "account", account)
                /\ key' = IniLookup(file, "key", key)
            /\ calls' = Called("AzureBlobConfig", "ini.Load")
       ELSE UNCHANGED <<configDir, account, key, calls>>
    /\ pc' = "CheckAccount"
    /\ UNCHANGED <<inputs, endpoint, config, err, resourceGroup, client,
                   subVars, authVars, planeVars>>

\* Lines 301-308.
CheckAccount ==
    /\ pc = "CheckAccount"
    /\ IF AccountMissing(account)
       THEN /\ err' = ErrMissingAccount(configDir)
            /\ pc' = "Done"
       ELSE /\ err' = err
            /\ pc' = IF NeedsDiscovery(endpoint, key) THEN "AccountsClient"
                     ELSE "Synthesize"
    /\ UNCHANGED <<inputs, endpoint, account, key, configDir, config, resourceGroup,
                   client, subVars, authVars, planeVars, calls>>

\* Line 310 and azureAccountsClient, lines 208-210: the subscription lookup.
AccountsClient ==
    /\ pc = "AccountsClient"
    /\ \E read \in ProfileReads :
        /\ profile' = read
        /\ subRet' = azureDefaultSubscription(read)
    /\ calls' = Called("azureAccountsClient", "azureDefaultSubscription")
    /\ pc' = "AccountsClientAuth"
    /\ UNCHANGED <<inputs, blobVars, authVars, planeVars>>

\* azureAccountsClient, lines 211-220: return the lookup's error (which
\* AzureBlobConfig returns at line 343) or invoke the authorizer chain with the
\* subscription's tenant.
AccountsClientAuth ==
    /\ pc = "AccountsClientAuth"
    /\ IF subRet.err # Nil
       THEN /\ err' = subRet.err
            /\ pc' = "Done"
            /\ UNCHANGED <<client, tenantId, calls>>
       ELSE /\ err' = err
            /\ client' = [SubscriptionID |-> subRet.sub.ID, Authorizer |-> NoAuthorizer]
            /\ tenantId' = subRet.sub.TenantID
            /\ calls' = Append(calls, <<"azureAccountsClient", "Authorizer",
                                       subRet.sub.TenantID>>)
            /\ pc' = "AuthTenant"
    /\ profile' = Absent
    /\ subRet' = Absent
    /\ UNCHANGED <<inputs, endpoint, account, key, configDir, config, resourceGroup,
                   env, adEndpoint, accessTokens, authRet, planeVars>>

\* Line 313 and azureFindAccount, lines 229-247.
FindAccount ==
    /\ pc = "FindAccount"
    /\ \E read \in ListReads :
        /\ accountsRes' = read
        /\ LET r == azureFindAccount(read, account) IN
            /\ endpoint' = r.endpoint
            /\ resourceGroup' = r.resourceGroup
            /\ err' = r.err
    /\ calls' = Called("azureFindAccount", "client.List")
    /\ pc' = "AfterFind"
    /\ UNCHANGED <<inputs, account, key, configDir, config, client,
                   subVars, authVars, keysRes>>

\* Lines 314-323.
AfterFind ==
    /\ pc = "AfterFind"
    /\ IF FindFailureFatal(err, key)
       THEN /\ err' = ErrMissingKey(configDir)
            /\ pc' = "Done"
       ELSE /\ err' = err
            /\ pc' = IF key = "" THEN "ListKeys" ELSE "Synthesize"
    /\ accountsRes' = Absent
    /\ UNCHANGED <<inputs, endpoint, account, key, configDir, config, resourceGroup,
                   client, subVars, authVars, keysRes, calls>>

\* Lines 324-330.
ListKeys ==
    /\ pc = "ListKeys"
    /\ \E read \in ListKeysReads :
        /\ keysRes' = read
        /\ IF read.err # Nil \/ Len(read.Keys) = 0
           THEN /\ err' = ErrMissingKey(configDir)
                /\ pc' = "Done"
           ELSE /\ err' = read.err
                /\ pc' = "SelectKey"
    /\ calls' = Called("AzureBlobConfig", "client.ListKeys")
    /\ UNCHANGED <<inputs, endpoint, account, key, configDir, config, resourceGroup,
                   client, subVars, authVars, accountsRes>>

\* Lines 332-340.
ChooseKey ==
    /\ pc = "SelectKey"
    /\ key' = SelectKey(keysRes.Keys, key)
    /\ pc' = "Synthesize"
    /\ UNCHANGED <<inputs, endpoint, account, configDir, config, err, resourceGroup,
                   client, subVars, authVars, planeVars, calls>>

\* Lines 347-352.
Synthesize ==
    /\ pc = "Synthesize"
    /\ endpoint' = SynthesizeEndpoint(endpoint, account)
    /\ keysRes' = Absent
    /\ pc' = "Finish"
    /\ UNCHANGED <<inputs, account, key, configDir, config, err, resourceGroup,
                   client, subVars, authVars, accountsRes, calls>>

\* Lines 355-359 without the config.Init() of line 354.
FinishWithoutInit ==
    /\ pc = "Finish"
    /\ config' = [config EXCEPT !.Endpoint = endpoint,
                                !.AccountName = account,
                                !.AccountKey = key]
    /\ pc' = "Done"
    /\ UNCHANGED <<inputs, endpoint, account, key, configDir, err, resourceGroup,
                   client, subVars, authVars, planeVars, calls>>

\* Lines 354-359: the result is filled in and returned together with
\* whatever err holds at that point.
Finish ==
    /\ pc = "Finish"
    /\ config' = [config EXCEPT !.TokenRenewBuffer = TokenRenewBufferMinutes,
                                !.Endpoint = endpoint,
                                !.AccountName = account,
                                !.AccountKey = key]
    /\ pc' = "Done"
    /\ UNCHANGED <<inputs, endpoint, account, key, configDir, err, resourceGroup,
                   client, subVars, authVars, planeVars, calls>>


\* ---------------------------------------------------------------------------
\* AzureAuthorizerConfig.Authorizer.

\* Lines 127-128: with an empty TenantId the default subscription is looked up.
AuthTenant ==
    /\ pc = "AuthTenant"
    /\ IF NeedsTenantLookup(tenantId)
       THEN /\ \E read \in ProfileReads :
                /\ profile' = read
                /\ subRet' = azureDefaultSubscription(read)
            /\ calls' = Called("Authorizer", "azureDefaultSubscription")
            /\ pc' = "AuthTenantSet"
       ELSE /\ pc' = "AuthEnv"
            /\ UNCHANGED <<subVars, calls>>
    /\ UNCHANGED <<inputs, blobVars, authVars, planeVars>>

\* Lines 129-133.
AuthTenantSet ==
    /\ pc = "AuthTenantSet"
    /\ IF subRet.err # Nil
       THEN /\ authRet' = [authorizer |-> NoAuthorizer, err |-> subRet.err]
            /\ pc' = "AuthReturn"
            /\ UNCHANGED tenantId
       ELSE /\ tenantId' = subRet.sub.TenantID
            /\ pc' = "AuthEnv"
            /\ UNCHANGED authRet
    /\ profile' = Absent
    /\ subRet' = Absent
    /\ UNCHANGED <<inputs, blobVars, env, adEndpoint, accessTokens, planeVars, calls>>

\* Lines 135-138.
AuthEnv ==
    /\ pc = "AuthEnv"
    /\ \E read \in EnvSettingsReads :
        IF read.err # Nil
        THEN /\ authRet' = [authorizer |-> NoAuthorizer, err |-> read.err]
             /\ pc' = "AuthReturn"
             /\ UNCHANGED env
        ELSE /\ env' = [Values |-> read.Values, Environment |-> PublicCloud]
             /\ pc' = "AuthEnvCred"
             /\ UNCHANGED authRet
    /\ calls' = Called("Authorizer", "auth.GetSettingsFromEnvironment")
    /\ UNCHANGED <<inputs, blobVars, subVars, tenantId, adEndpoint, accessTokens,
                   planeVars>>

\* Lines 140-151 with the settings-file step left out: after the environment
\* credentials the chain goes straight to the token cache.
AuthEnvCredSkipsFile ==
    /\ pc = "AuthEnvCred"
    /\ \E outcome \in CredOutcomes :
        LET r == CredentialResult(outcome, "environment") IN
        IF r.done
        THEN /\ authRet' = [authorizer |-> r.authorizer, err |-> r.err]
             /\ pc' = "AuthReturn"
        ELSE /\ pc' = "AuthTokenPath"
             /\ UNCHANGED authRet
    /\ calls' = Called("Authorizer", "env.GetClientCredentials")
    /\ UNCHANGED <<inputs, blobVars, subVars, tenantId, env, adEndpoint, accessTokens,
                   planeVars>>

\* Lines 140-144.
AuthEnvCred ==
    /\ pc = "AuthEnvCred"
    /\ \E outcome \in CredOutcomes :
        LET r == CredentialResult(outcome, "environment") IN
        IF r.done
        THEN /\ authRet' = [authorizer |-> r.authorizer, err |-> r.err]
             /\ pc' = "AuthReturn"
        ELSE /\ pc' = "AuthFileCred"
             /\ UNCHANGED authRet
    /\ calls' = Called("Authorizer", "env.GetClientCredentials")
    /\ UNCHANGED <<inputs, blobVars, subVars, tenantId, env, adEndpoint, accessTokens,
                   planeVars>>

\* Lines 146-151.
AuthFileCred ==
    /\ pc = "AuthFileCred"
    /\ \E outcome \in CredOutcomes :
        LET r == CredentialResult(outcome, "file") IN
        IF r.done
        THEN /\ authRet' = [authorizer |-> r.authorizer, err |-> r.err]
             /\ pc' = "AuthReturn"
        ELSE /\ pc' = "AuthTokenPath"
             /\ UNCHANGED authRet
    /\ calls' = Called("Authorizer", "auth.GetSettingsFromFile")
    /\ UNCHANGED <<inputs, blobVars, subVars, tenantId, env, adEndpoint, accessTokens,
                   planeVars>>

\* Line 164: does an error of cli.AccessTokensPath skip the token cache?
SkipsCacheOnPathError(pathErr) == pathErr # Nil

\* Lines 153-164.
AuthTokenPath ==
    /\ pc = "AuthTokenPath"
    /\ env' = WithDefaults(env)
    /\ adEndpoint' = AdEndpoint(env'.Values["ActiveDirectoryEndpoint"], tenantId)
    /\ \E pathErr \in {Nil, "cli.AccessTokensPath failed"} :
        pc' = IF SkipsCacheOnPathError(pathErr) THEN "AuthMSI" ELSE "AuthLoadTokens"
    /\ calls' = Called("Authorizer", "cli.AccessTokensPath")
    /\ UNCHANGED <<inputs, blobVars, subVars, tenantId, accessTokens, authRet,
                   planeVars>>

\* The calls of tokenToAuthorizer for the positions in converted.
RECURSIVE Conversions(_, _)
Conversions(log, converted) ==
    IF converted = <<>> THEN log
    ELSE Conversions(Append(log, <<"Authorizer", "tokenToAuthorizer", Head(converted)>>),
                     Tail(converted))

\* Lines 165-180.
AuthLoadTokens ==
    /\ pc = "AuthLoadTokens"
    /\ \E read \in TokenReads :
        /\ accessTokens' = read
        /\ \E r \in {TokenStep(read, adEndpoint)} :
            /\ calls' = Conversions(Called("Authorizer", "cli.LoadTokens"), r.converted)
            /\ IF r.done
               THEN /\ authRet' = [authorizer |-> r.authorizer, err |-> r.err]
                    /\ pc' = "AuthReturn"
               ELSE /\ pc' = "AuthMSI"
                    /\ UNCHANGED authRet
    /\ UNCHANGED <<inputs, blobVars, subVars, tenantId, env, adEndpoint, planeVars>>

\* Lines 183-184.
AuthMSI ==
    /\ pc = "AuthMSI"
    /\ \E usable \in BOOLEAN :
        authRet' = msiToAuthorizer([Resource |-> env.Values["Resource"],
                                    ClientID |-> env.Values["ClientID"]], usable)
    /\ calls' = Called("Authorizer", "msiToAuthorizer")
    /\ pc' = "AuthReturn"
    /\ UNCHANGED <<inputs, blobVars, subVars, tenantId, env, adEndpoint, accessTokens,
                   planeVars>>

\* The return of Authorizer: to its caller when it was invoked directly, or
\* into azureAccountsClient (lines 221-226) and from there into
\* AzureBlobConfig (lines 311, 342-344).
AuthReturn ==
    /\ pc = "AuthReturn"
    /\ IF entry = "Authorizer"
       THEN /\ pc' = "Done"
            /\ UNCHANGED <<authRet, err, client>>
       ELSE /\ authRet' = Absent
            /\ IF authRet.err # Nil
               THEN /\ err' = authRet.err
                    /\ pc' = "Done"
                    /\ UNCHANGED client
               ELSE /\ err' = authRet.err
                    /\ client' = [client EXCEPT !.Authorizer = authRet.authorizer]
                    /\ pc' = "FindAccount"
    /\ tenantId' = None
    /\ env' = Absent
    /\ adEndpoint' = None
    /\ accessTokens' = Absent
    /\ UNCHANGED <<inputs, endpoint, account, key, configDir, config, resourceGroup,
                   subVars, planeVars, calls>>

\* ---------------------------------------------------------------------------

Next ==
    \/ GetEnv
    \/ ParseWasb
    \/ ParseEndpoint
    \/ LoadConfig
    \/ CheckAccount
    \/ AccountsClient
    \/ AccountsClientAuth
    \/ AuthTenant
    \/ AuthTenantSet
    \/ AuthEnv
    \/ AuthEnvCred
    \/ AuthFileCred
    \/ AuthTokenPath
    \/ AuthLoadTokens
    \/ AuthMSI
    \/ AuthReturn
    \/ FindAccount
    \/ AfterFind
    \/ ListKeys
    \/ ChooseKey
    \/ Synthesize
    \/ Finish

Spec == Init /\ [][Next]_vars

\* ---------------------------------------------------------------------------
\* Two calls of AzureBlobConfig running concurrently against collaborators
\* that only answer reads.  Each block of the function is a function of the
\* call's own parameters, locals and named results (its frame) and of what
\* the collaborators hold.

\* The two concurrent calls.
Calls == {1, 2}

\* The single-call variables, which the concurrent calls do not use.
soloVars ==
    <<entry, argEndpoint, argWasb, argTenantId, envAccount, envKey, envConfigDir,
      pc, blobVars, subVars, authVars, planeVars, calls>>

\* What the collaborators hold during the two calls: the process environment,
\* the ini file, the CLI profile, the credential sources, the token cache,
\* the managed-identity endpoint and the control plane.
Worlds ==
    {[envAccount |-> e[1], envKey |-> e[2], envConfigDir |-> "",
      iniFile |-> ini,
      profile |-> [pathErr |-> Nil, loadErr |-> Nil,
                   Subscriptions |->
                       <<[ID |-> "sub3", TenantID |-> "t3", IsDefault |-> FALSE],
                         [ID |-> "sub1", TenantID |-> "t1", IsDefault |-> TRUE]>>],
      envSettings |-> [err |-> Nil,
                       Values |-> [k \in {"Resource", "ActiveDirectoryEndpoint",
                                          "ClientID"} |-> ""]],
      envCred |-> "none",
      fileCred |-> "unusable",
      tokenPathErr |-> Nil,
      tokenRead |-> [loadErr |-> Nil, tokens |-> toks],
      msiUsable |-> msi,
      listRead |-> [err |-> Nil,
                    Value |-> <<[Name |-> "epacct",
                                 ID |-> "/subscriptions/sub1/resourceGroups/rg2/providers/Microsoft.Storage/storageAccounts/epacct",
                                 Blob |-> "https://epacct.blob.core.windows.net/"],
                                [Name |-> "envacct",
                                 ID |-> "/subscriptions/sub1/resourceGroups/rg1/providers/Microsoft.Storage/storageAccounts/envacct",
                                 Blob |-> "https://envacct.blob.core.windows.net/"]>>],
      keysRead |-> [err |-> Nil,
                    Keys |-> <<[Permissions |-> "Read", Value |-> "B"],
                               [Permissions |-> "Full", Value |-> "A"]>>]] :
        e \in {<<"envacct", "envkey">>, <<"envacct", "">>, <<"", "">>},
        ini \in {[loadErr |-> TRUE, sections |-> EmptyFn],
                 [loadErr |-> FALSE,
                  sections |-> [n \in {"storage"} |->
                                  [k \in {"account", "key"} |->
                                      IF k = "account" THEN "iniacct" ELSE "inikey"]]]},
        toks \in {<<>>,
                  <<[Authority |-> "https://login.microsoftonline.com/t1",
                     Usable |-> TRUE]>>},
        msi \in BOOLEAN}

\* The arguments of the two calls.
PairArgs ==
    {<<[endpoint |-> ep, wasb |-> ""], [endpoint |-> "", wasb |-> hint]>> :
        ep \in {"", "https://epacct.blob.core.windows.net"},
        hint \in {"", "cont@wacct.blob.core.windows.net/dir/sub/"}}

\* The frame of a call on entry (line 249): the parameters and the zero
\* named results; every local is out of scope.
InitFrame(a) ==
    [endpoint |-> a.endpoint, wasb |-> a.wasb, account |-> None, key |-> None,
     configDir |-> None, config |-> ZeroConfig, err |-> Nil, resourceGroup |-> None,
     client |-> Absent, tenantId |-> None, env |-> Absent, adEndpoint |-> None,
     authRet |-> Absent]

\* The block that runs next and the frame it runs on.
To(next, f) == [pc |-> next, f |-> f]

\* Authorizer returns (authorizer, err).
AuthResult(f, authorizer, e) ==
    To("AuthReturn", [f EXCEPT !.authRet = [authorizer |-> authorizer, err |-> e]])

\* Lines 250-252.
DoGetEnv(f, w) ==
    To("Parse", [f EXCEPT !.account = w.envAccount, !.key = w.envKey,
                          !.configDir = w.envConfigDir])

\* Lines 267-279 on the result r of parsing the endpoint.
DoParseAccount(f, r) ==
    To(IF r.err # Nil THEN "Done" ELSE "LoadConfig",
       [f EXCEPT !.err = r.err, !.account = r.account])

\* Lines 254-265 on the result h of parsing the hint, then lines 267-279.
DoParseHint(f, h) ==
    DoParseAccount([f EXCEPT !.endpoint = h.endpoint, !.config = h.config],
                   AccountFromEndpoint(h.endpoint, f.account))

\* Lines 254-279.
DoParse(f, w) == DoParseHint(f, ParseWasbHint(f.wasb, f.endpoint, f.config))

\* Lines 301-308.
DoCheckAccount(f) ==
    IF AccountMissing(f.account)
    THEN To("Done", [f EXCEPT !.err = ErrMissingAccount(f.configDir)])
    ELSE To(IF NeedsDiscovery(f.endpoint, f.key) THEN "Subscription" ELSE "Finish", f)

\* Lines 281-308.
DoLoadConfig(f, w) ==
    IF NeedsConfigFile(f.account, f.key)
    THEN DoCheckAccount(
            [f EXCEPT !.configDir = IF f.configDir = "" THEN HomeAzureDir ELSE f.configDir,
                      !.account = IniLookup(w.iniFile, "account", f.account),
                      !.key = IniLookup(w.iniFile, "key", f.key)])
    ELSE DoCheckAccount(f)

\* azureAccountsClient, lines 211-220, on the result s of the lookup.
DoSubscriptionResult(f, s) ==
    IF s.err # Nil THEN To("Done", [f EXCEPT !.err = s.err])
    ELSE To("AuthEnv",
            [f EXCEPT !.client = [SubscriptionID |-> s.sub.ID, Authorizer |-> NoAuthorizer],
                      !.tenantId = s.sub.TenantID])

\* Line 310 and azureAccountsClient, lines 208-220.
DoSubscription(f, w) == DoSubscriptionResult(f, azureDefaultSubscription(w.profile))

\* Authorizer, lines 140-151, on the outcomes e and s of the two credential
\* sources.
DoAuthCredentials(f, e, s) ==
    IF e.done THEN AuthResult(f, e.authorizer, e.err)
    ELSE IF s.done THEN AuthResult(f, s.authorizer, s.err)
    ELSE To("AuthTokens", f)

\* Authorizer, lines 135-151.
DoAuthSettings(f, w) ==
    IF w.envSettings.err # Nil THEN AuthResult(f, NoAuthorizer, w.envSettings.err)
    ELSE DoAuthCredentials(
            [f EXCEPT !.env = [Values |-> w.envSettings.Values,
                               Environment |-> PublicCloud]],
            CredentialResult(w.envCred, "environment"),
            CredentialResult(w.fileCred, "file"))

\* Authorizer, lines 128-133, on the result s of the lookup.
DoAuthTenant(f, w, s) ==
    IF s.err # Nil THEN AuthResult(f, NoAuthorizer, s.err)
    ELSE DoAuthSettings([f EXCEPT !.tenantId = s.sub.TenantID], w)

\* Authorizer, lines 127-151.
DoAuthEnv(f, w) ==
    IF NeedsTenantLookup(f.tenantId)
    THEN DoAuthTenant(f, w, azureDefaultSubscription(w.profile))
    ELSE DoAuthSettings(f, w)

\* Authorizer, lines 172-180, on the outcome r of the token cache step.
DoAuthCacheResult(f, r) ==
    IF r.done THEN AuthResult(f, r.authorizer, r.err) ELSE To("AuthMSI", f)

\* Authorizer, lines 163-180.
DoAuthCache(f, w) ==
    IF SkipsCacheOnPathError(w.tokenPathErr) THEN To("AuthMSI", f)
    ELSE DoAuthCacheResult(f, TokenStep(w.tokenRead, f.adEndpoint))

\* Authorizer, lines 159-160.
DoAuthAuthority(f) ==
    [f EXCEPT !.adEndpoint = AdEndpoint(f.env.Values["ActiveDirectoryEndpoint"],
                                        f.tenantId)]

\* Authorizer, lines 153-181.
DoAuthTokens(f, w) ==
    DoAuthCache(DoAuthAuthority([f EXCEPT !.env = WithDefaults(f.env)]), w)

\* Authorizer, lines 183-184.
DoAuthMSI(f, w) ==
    To("AuthReturn",
       [f EXCEPT !.authRet = msiToAuthorizer([Resource |-> f.env.Values["Resource"],
                                              ClientID |-> f.env.Values["ClientID"]],
                                             w.msiUsable)])

\* azureAccountsClient, lines 221-226, and AzureBlobConfig, lines 311 and
\* 342-344.
DoAuthReturn(f, w) ==
    IF f.authRet.err # Nil THEN To("Done", [f EXCEPT !.err = f.authRet.err])
    ELSE To("FindAccount",
            [f EXCEPT !.err = f.authRet.err,
                      !.client = [f.client EXCEPT !.Authorizer = f.authRet.authorizer]])

\* Lines 313-323 on the result r of azureFindAccount.
DoFindResult(f, r) ==
    IF FindFailureFatal(r.err, f.key)
    THEN To("Done", [f EXCEPT !.endpoint = r.endpoint, !.resourceGroup = r.resourceGroup,
                              !.err = ErrMissingKey(f.configDir)])
    ELSE To(IF f.key = "" THEN "ListKeys" ELSE "Finish",
            [f EXCEPT !.endpoint = r.endpoint, !.resourceGroup = r.resourceGroup,
                      !.err = r.err])

\* Lines 313-323.
DoFindAccount(f, w) == DoFindResult(f, azureFindAccount(w.listRead, f.account))

\* Lines 324-341.
DoListKeys(f, w) ==
    IF w.keysRead.err # Nil \/ Len(w.keysRead.Keys) = 0
    THEN To("Done", [f EXCEPT !.err = ErrMissingKey(f.configDir)])
    ELSE To("Finish", [f EXCEPT !.err = w.keysRead.err,
                                !.key = SelectKey(w.keysRead.Keys, f.key)])

\* Lines 354-359 on the endpoint ep of lines 347-352.
DoFill(f, ep) ==
    To("Done",
       [f EXCEPT !.endpoint = ep,
                 !.config = [f.config EXCEPT !.TokenRenewBuffer = TokenRenewBufferMinutes,
                                             !.Endpoint = ep,
                                             !.AccountName = f.account,
                                             !.AccountKey = f.key]])

\* Lines 347-359.
DoFinish(f, w) == DoFill(f, SynthesizeEndpoint(f.endpoint, f.account))

\* The block named by a program counter.
Block(at, f, w) ==
    CASE at = "GetEnv" -> DoGetEnv(f, w)
      [] at = "Parse" -> DoParse(f, w)
      [] at = "LoadConfig" -> DoLoadConfig(f, w)
      [] at = "Subscription" -> DoSubscription(f, w)
      [] at = "AuthEnv" -> DoAuthEnv(f, w)
      [] at = "AuthTokens" -> DoAuthTokens(f, w)
      [] at = "AuthMSI" -> DoAuthMSI(f, w)
      [] at = "AuthReturn" -> DoAuthReturn(f, w)
      [] at = "FindAccount" -> DoFindAccount(f, w)
      [] at = "ListKeys" -> DoListKeys(f, w)
      [] at = "Finish" -> DoFinish(f, w)

\* A call run from block at to its return, with nothing else running.
RECURSIVE RunAlone(_, _, _)
RunAlone(at, f, w) ==
    IF at = "Done" THEN [config |-> f.config, err |-> f.err]
    ELSE RunAlone(Block(at, f, w).pc, Block(at, f, w).f, w)

\* All calls keep their parameters, locals and results in one place, as
\* package-level variables would be.
FrameShared(c) == 1

\* Line 249: the parameters, the locals and the named results of a call
\* belong to that call.
Frame(c) == c

\* The caller starts the two calls.
InitPair ==
    /\ world \in Worlds
    /\ pargs \in PairArgs
    /\ frames = [c \in Calls |-> InitFrame(pargs[c])]
    /\ ppc = [c \in Calls |-> "GetEnv"]
    /\ results = [c \in Calls |-> Absent]
    /\ entry = "concurrent"
    /\ argEndpoint = None
    /\ argWasb = None
    /\ argTenantId = None
    /\ envAccount = None
    /\ envKey = None
    /\ envConfigDir = None
    /\ pc = "Done"
    /\ endpoint = None
    /\ account = None
    /\ key = None
    /\ configDir = None
    /\ config = Absent
    /\ err = None
    /\ resourceGroup = None
    /\ client = Absent
    /\ profile = Absent
    /\ subRet = Absent
    /\ tenantId = None
    /\ env = Absent
    /\ adEndpoint = None
    /\ accessTokens = Absent
    /\ authRet = Absent
    /\ accountsRes = Absent
    /\ keysRes = Absent
    /\ calls = <<>>

\* Call c runs a block whose outcome is out.
Run(c, out) ==
    /\ ppc' = [ppc EXCEPT ![c] = out.pc]
    /\ frames' = [frames EXCEPT ![Frame(c)] = out.f]
    /\ results' = IF out.pc = "Done"
                  THEN [results EXCEPT ![c] = [config |-> out.f.config, err |-> out.f.err]]
                  ELSE results
    /\ UNCHANGED <<world, pargs, soloVars>>

ConcGetEnv(c) ==
    /\ ppc[c] = "GetEnv"
    /\ Run(c, DoGetEnv(frames[Frame(c)], world))

ConcParse(c) ==
    /\ ppc[c] = "Parse"
    /\ Run(c, DoParse(frames[Frame(c)], world))

ConcLoadConfig(c) ==
    /\ ppc[c] = "LoadConfig"
    /\ Run(c, DoLoadConfig(frames[Frame(c)], world))

ConcSubscription(c) ==
    /\ ppc[c] = "Subscription"
    /\ Run(c, DoSubscription(frames[Frame(c)], world))

ConcAuthEnv(c) ==
    /\ ppc[c] = "AuthEnv"
    /\ Run(c, DoAuthEnv(frames[Frame(c)], world))

ConcAuthTokens(c) ==
    /\ ppc[c] = "AuthTokens"
    /\ Run(c, DoAuthTokens(frames[Frame(c)], world))

ConcAuthMSI(c) ==
    /\ ppc[c] = "AuthMSI"
    /\ Run(c, DoAuthMSI(frames[Frame(c)], world))

ConcAuthReturn(c) ==
    /\ ppc[c] = "AuthReturn"
    /\ Run(c, DoAuthReturn(frames[Frame(c)], world))

ConcFindAccount(c) ==
    /\ ppc[c] = "FindAccount"
    /\ Run(c, DoFindAccount(frames[Frame(c)], world))

ConcListKeys(c) ==
    /\ ppc[c] = "ListKeys"
    /\ Run(c, DoListKeys(frames[Frame(c)], world))

ConcFinish(c) ==
    /\ ppc[c] = "Finish"
    /\ Run(c, DoFinish(frames[Frame(c)], world))

NextPair ==
    \E c \in Calls :
        \/ ConcGetEnv(c)
        \/ ConcParse(c)
        \/ ConcLoadConfig(c)
        \/ ConcSubscription(c)
        \/ ConcAuthEnv(c)
        \/ ConcAuthTokens(c)
        \/ ConcAuthMSI(c)
        \/ ConcAuthReturn(c)
        \/ ConcFindAccount(c)
        \/ ConcListKeys(c)
        \/ ConcFinish(c)

SpecPair == InitPair /\ [][NextPair]_vars



\* ---------------------------------------------------------------------------
\* Vocabulary of the properties.

\* The calls made by Authorizer itself, in order.
AuthCalls == SelectSeq(calls, LAMBDA c : c[1] = "Authorizer")

HasCall(callee) == \E i \in DOMAIN calls : calls[i][2] = callee

\* Everything the code calls except the ini file belongs to the control-plane
\* path: the subscription lookup, the authorizer chain, the account list and
\* the key list.
NoControlPlaneCalls == \A i \in DOMAIN calls : calls[i][2] = "ini.Load"

\* The step of the chain (1..5) a call of Authorizer belongs to.
StepOfCall(c) ==
    CASE c[2] = "azureDefaultSubscription" -> 1
      [] c[2] \in {"auth.GetSettingsFromEnvironment", "env.GetClientCredentials"} -> 2
      [] c[2] = "auth.GetSettingsFromFile" -> 3
      [] c[2] \in {"cli.AccessTokensPath", "cli.LoadTokens", "tokenToAuthorizer"} -> 4
      [] c[2] = "msiToAuthorizer" -> 5

\* The step that produces an authorizer of the given source.
StepOfSource(source) ==
    CASE source = "environment" -> 2
      [] source = "file" -> 3
      [] source = "cli.Token" -> 4
      [] source = "msi" -> 5

LastAuthCallee == IF AuthCalls = <<>> THEN None ELSE AuthCalls[Len(AuthCalls)][2]

\* Authorizer has produced its result (and the result is still in scope).
AuthReturned == authRet # Absent

\* The endpoint AzureBlobConfig works with after the path hint (step 1).
EffectiveEndpoint == ParseWasbHint(argWasb, argEndpoint, ZeroConfig).endpoint

\* AzureBlobConfig reached lines 354-359 and filled the result in.
ResultFilled == pc = "Done" /\ config.TokenRenewBuffer # 0

BothEnvSet == entry = "AzureBlobConfig" /\ envAccount # "" /\ envKey # ""


\* ---------------------------------------------------------------------------
\* C1.

\* C1 as stated: whenever AZURE_STORAGE_ACCOUNT and AZURE_STORAGE_KEY are both
\* non-empty, no control-plane call is made during the call and a call that
\* returns without error returns exactly those two values.
C1_EnvValuesUnchanged ==
    BothEnvSet =>
        /\ NoControlPlaneCalls
        /\ (pc = "Done" /\ err = Nil) =>
                /\ config.AccountName = envAccount
                /\ config.AccountKey = envKey

\* The endpoint after step 1 does not name an account: it is empty, the
\* emulator address, or its hostname has no dot.
EndpointNamesNoAccount ==
    \/ EffectiveEndpoint \in {"", EmulatorEndpoint}
    \/ Index(Hostname(ParseURL(EffectiveEndpoint)), ".") = -1

\* C1 amended: with both variables non-empty, the key list is never asked
\* for; no control-plane call at all is made when the endpoint after step 1
\* is non-empty; and a call that fills its result in returns the environment
\* key, and the environment account unless the endpoint's hostname has a dot.
C1_EnvValuesKept ==
    BothEnvSet =>
        /\ ~HasCall("client.ListKeys")
        /\ EffectiveEndpoint # "" => NoControlPlaneCalls
        /\ ResultFilled =>
                /\ config.AccountKey = envKey
                /\ EndpointNamesNoAccount => config.AccountName = envAccount

\* C1 witness: a call with both variables set and an endpoint given returned
\* them unchanged without any call to a collaborator.
C1_Witness ==
    /\ BothEnvSet
    /\ ResultFilled
    /\ EffectiveEndpoint # ""
    /\ config.AccountName = envAccount
    /\ config.AccountKey = envKey
    /\ calls = <<>>


\* ---------------------------------------------------------------------------
\* C2.

\* Step 5 of AzureBlobConfig was entered (azureAccountsClient was called).
DiscoveryEntered ==
    \E i \in DOMAIN calls : calls[i] = <<"azureAccountsClient", "azureDefaultSubscription">>

\* C2 as stated: when step 5 is entered with the key already known (so the
\* endpoint is empty) the call cannot fail, whatever part of the discovery
\* fails, and it returns a non-empty endpoint; a call that fails after
\* entering step 5 fails with the "missing key" error and has no key.
C2_DiscoveryFailureIgnored ==
    (entry = "AzureBlobConfig" /\ pc = "Done" /\ DiscoveryEntered) =>
        /\ (key # "" /\ ~HasCall("client.ListKeys")) =>
                /\ err = Nil
                /\ config.Endpoint # ""
        /\ err # Nil => (key = "" /\ err = ErrMissingKey(configDir))

\* ---------------------------------------------------------------------------
\* C3.

\* Some cached token matches the authority and converts.
SomeTokenUsable ==
    \E i \in DOMAIN accessTokens.tokens :
        /\ accessTokens.tokens[i].Authority = adEndpoint
        /\ tokenToAuthorizer(accessTokens.tokens[i]).err = Nil

\* C3 as stated: once the token cache was read and holds no token that both
\* matches and converts, the chain's result is the managed-identity
\* resolver's result: the last call of the chain is msiToAuthorizer.
C3_FallsBackToMSI ==
    (pc = "AuthReturn" /\ accessTokens # Absent /\ accessTokens.loadErr = Nil
        /\ ~SomeTokenUsable)
    => LastAuthCallee = "msiToAuthorizer"

\* ---------------------------------------------------------------------------
\* C4.

AuthStepPcs ==
    {"AuthTenant", "AuthTenantSet", "AuthEnv", "AuthEnvCred", "AuthFileCred",
     "AuthTokenPath", "AuthLoadTokens", "AuthMSI"}

\* C4: the calls of the chain follow the order of the steps 1..5, no call is
\* made twice, a step from 3 on is only reached through the step before it,
\* no step runs once a result exists, and when an authorizer is returned the
\* last call made is one of the step that produced it.
C4_StepsInOrder ==
    LET a == AuthCalls IN
    /\ \A i, j \in DOMAIN a : i < j =>
            /\ StepOfCall(a[i]) <= StepOfCall(a[j])
            /\ a[i] # a[j]
    /\ \A k \in 3..5 :
            (\E i \in DOMAIN a : StepOfCall(a[i]) = k)
            => (\E i \in DOMAIN a : StepOfCall(a[i]) = k - 1)
    /\ pc \in AuthStepPcs => ~AuthReturned
    /\ (AuthReturned /\ authRet.authorizer # NoAuthorizer) =>
            /\ a # <<>>
            /\ StepOfCall(a[Len(a)]) = StepOfSource(authRet.authorizer.source)

\* C4 witness: step 2 produced the authorizer and nothing after
\* env.GetClientCredentials was called.
C4_Witness ==
    /\ AuthReturned
    /\ authRet.authorizer # NoAuthorizer
    /\ authRet.authorizer.source = "environment"
    /\ LastAuthCallee = "env.GetClientCredentials"
    /\ ~HasCall("auth.GetSettingsFromFile")
    /\ ~HasCall("cli.AccessTokensPath")
    /\ ~HasCall("msiToAuthorizer")


\* ---------------------------------------------------------------------------
\* C5.

\* C5 as stated: a call that returns an error never does so out of step 2
\* (reading the environment settings included) or step 3.
C5_CredentialStepsNeverFail ==
    (AuthReturned /\ authRet.err # Nil) => StepOfCall(AuthCalls[Len(AuthCalls)]) \notin {2, 3}

\* C5 amended: a failure of the environment client credentials or of the
\* settings file never ends the call, the chain goes on with the next step;
\* but a failure of reading the environment settings ends the call with that
\* error.
C5_CredentialErrorsDropped ==
    /\ (AuthReturned /\ authRet.err # Nil) =>
            LastAuthCallee \notin {"env.GetClientCredentials", "auth.GetSettingsFromFile"}
    /\ (AuthReturned /\ LastAuthCallee = "auth.GetSettingsFromEnvironment") =>
            authRet = [authorizer |-> NoAuthorizer,
                       err |-> "auth.GetSettingsFromEnvironment failed"]
    /\ pc = "AuthFileCred" => LastAuthCallee = "env.GetClientCredentials"
    /\ pc = "AuthTokenPath" => LastAuthCallee = "auth.GetSettingsFromFile"

\* C5 witness: both client-credential sources failed and the chain stands at
\* the token cache step without a result.
C5_Witness ==
    /\ pc = "AuthTokenPath"
    /\ HasCall("env.GetClientCredentials")
    /\ HasCall("auth.GetSettingsFromFile")
    /\ ~AuthReturned

\* ---------------------------------------------------------------------------
\* C6.

\* cli.AccessTokensPath failed: the path was asked for, the cache was not
\* loaded, and the chain is past the token cache step.
TokenPathFailed ==
    /\ HasCall("cli.AccessTokensPath")
    /\ ~HasCall("cli.LoadTokens")
    /\ pc \in {"AuthMSI", "AuthReturn"} \/ (pc = "Done" /\ entry = "Authorizer")

\* C6 as stated: neither an error of the token cache path nor an error of
\* loading the cache lets the chain reach the managed-identity step; the call
\* returns the error.
C6_CacheErrorsFatal ==
    /\ TokenPathFailed => (pc # "AuthMSI" /\ ~HasCall("msiToAuthorizer"))
    /\ (accessTokens # Absent /\ accessTokens.loadErr # Nil) =>
            /\ authRet = [authorizer |-> NoAuthorizer, err |-> accessTokens.loadErr]
            /\ ~HasCall("msiToAuthorizer")

\* C6 amended: an error of loading the token cache is returned and the
\* managed-identity step is not attempted; an error of the token cache path
\* is not returned: the cache is skipped and the managed-identity step runs
\* next, its result being the call's result.
C6_LoadErrorFatalPathErrorNot ==
    /\ (accessTokens # Absent /\ accessTokens.loadErr # Nil) =>
            /\ authRet = [authorizer |-> NoAuthorizer, err |-> accessTokens.loadErr]
            /\ ~HasCall("msiToAuthorizer")
    /\ (TokenPathFailed /\ pc # "AuthMSI") =>
            /\ LastAuthCallee = "msiToAuthorizer"
            /\ authRet \in {msiToAuthorizer([Resource |-> PublicCloud.ResourceManagerEndpoint,
                                            ClientID |-> cid], usable) :
                             cid \in {"", "client1"}, usable \in BOOLEAN}

\* C6 witness: the token cache path failed and the call returned the
\* managed-identity authorizer.
C6_Witness ==
    /\ TokenPathFailed
    /\ AuthReturned
    /\ authRet.authorizer # NoAuthorizer
    /\ authRet.authorizer.source = "msi"

\* ---------------------------------------------------------------------------
\* C7.

\* The TenantId the chain was invoked with.
PassedTenant ==
    IF entry = "Authorizer" THEN argTenantId
    ELSE calls[CHOOSE i \in DOMAIN calls : calls[i][2] = "Authorizer"][3]

AuthorizerInvoked == entry = "Authorizer" \/ HasCall("Authorizer")

SubscriptionErrors ==
    {"cli.ProfilePath failed", "cli.LoadProfile failed", ErrNoDefaultSubscription}

\* The state part of C7: where the lookup stands among the calls of the
\* chain, what a failed lookup returns, and which tenant the authority holds.
C7_LookupFirst ==
    AuthorizerInvoked =>
        LET a == AuthCalls IN
        /\ PassedTenant = "" =>
                /\ a # <<>> => a[1][2] = "azureDefaultSubscription"
                /\ pc # "AuthTenant" => a # <<>>
        /\ PassedTenant # "" =>
                \A i \in DOMAIN a : a[i][2] # "azureDefaultSubscription"
        /\ pc = "AuthTenantSet" => Len(a) = 1
        /\ (AuthReturned /\ authRet.err \in SubscriptionErrors) =>
                /\ authRet.authorizer = NoAuthorizer
                /\ Len(a) = 1
        /\ adEndpoint # None =>
                adEndpoint = Trim(env.Values["ActiveDirectoryEndpoint"], "/")
                                \o "/" \o tenantId

\* The step part of C7: what lines 129-133 do with the lookup's result.
C7_LookupResultUsed ==
    pc = "AuthTenantSet" =>
        IF subRet.err # Nil
        THEN /\ authRet' = [authorizer |-> NoAuthorizer, err |-> subRet.err]
             /\ pc' = "AuthReturn"
             /\ calls' = calls
        ELSE /\ tenantId' = subRet.sub.TenantID
             /\ pc' = "AuthEnv"

\* C7: with an empty TenantId the default subscription is looked up before
\* anything else, its tenant id becomes the tenant of the authority, and a
\* failed lookup ends the call with the lookup's error before any of the
\* steps 2-5; with a non-empty TenantId the profile store is never read.
C7_TenantFromDefaultSubscription == []C7_LookupFirst /\ [][C7_LookupResultUsed]_vars

\* C7 witness: the chain was invoked without a tenant and computed the
\* authority from the tenant of the default subscription.
C7_Witness ==
    /\ entry = "Authorizer"
    /\ argTenantId = ""
    /\ tenantId = "t2"
    /\ adEndpoint = "https://login.microsoftonline.com/t2"


\* ---------------------------------------------------------------------------
\* C8.

Filled(v) == v \notin {"", None}

AfterStepOne == entry = "AzureBlobConfig" /\ pc \notin {"GetEnv", "ParseWasb"}

\* One step of AzureBlobConfig after step 1 leaves a non-empty account name,
\* key and endpoint as they are.
C9_StepFillsOnly ==
    AfterStepOne =>
        /\ Filled(account) => account' = account
        /\ Filled(key) => key' = key
        /\ Filled(endpoint) => endpoint' = endpoint

\* C9 as stated: after step 1 no step replaces a non-empty account name, key
\* or endpoint.
C9_EveryStepFillsOnly == [][C9_StepFillsOnly]_vars

\* One step of AzureBlobConfig after step 1 leaves a non-empty key as it is,
\* leaves a non-empty account name as it is unless it is the step that parses
\* the endpoint, and leaves a non-empty endpoint as it is unless it is the
\* account discovery.
C9_StepFillsOnlyButTwo ==
    AfterStepOne =>
        /\ (Filled(account) /\ pc # "ParseEndpoint") => account' = account
        /\ Filled(key) => key' = key
        /\ (Filled(endpoint) /\ pc # "FindAccount") => endpoint' = endpoint
        /\ (pc = "FindAccount" /\ Filled(key)) => endpoint = ""

\* C9 amended: after step 1 a non-empty key is never replaced, the config
\* file and the endpoint synthesis only fill what is empty, and only two
\* steps replace a non-empty value: parsing the endpoint replaces the account
\* name, and the account discovery, when it runs for a missing key, replaces
\* the endpoint.
C9_StepsFillOnlyButTwo == [][C9_StepFillsOnlyButTwo]_vars

\* C9 witness: the config file was read while the account name was already
\* known, the key came from the file, and the account name is still the one
\* from the environment.
C9_Witness ==
    /\ entry = "AzureBlobConfig"
    /\ pc = "CheckAccount"
    /\ HasCall("ini.Load")
    /\ account = envAccount
    /\ account # ""
    /\ envKey = ""
    /\ key = "inikey"

\* ---------------------------------------------------------------------------
\* C10.

\* C10: when the account name is still empty after the config file was read,
\* the call ends at the account check with the "missing account" error, and
\* nothing but the config file was consulted.
C10_MissingAccount ==
    (entry = "AzureBlobConfig" /\ account = "" /\ HasCall("ini.Load")) =>
        /\ pc \in {"CheckAccount", "Done"}
        /\ pc = "Done" =>
                /\ err = ErrMissingAccount(configDir)
                /\ config.AccountName = ""
        /\ NoControlPlaneCalls

\* C10 witness: a call without any account name returned the error.
C10_Witness ==
    /\ entry = "AzureBlobConfig"
    /\ pc = "Done"
    /\ account = ""
    /\ err = ErrMissingAccount(HomeAzureDir)
    /\ calls = <<<<"AzureBlobConfig", "ini.Load">>>>

\* ---------------------------------------------------------------------------
\* C11.

\* The two errors azureFindAccount makes itself (lines 240 and 246).
IsMalformedOrNotFound(e) ==
    \/ HasPrefix(e, "Malformed account id: ")
    \/ HasPrefix(e, "Azure account not found: ")

\* The failure of the subscription lookup is handed on as it is, and so is,
\* as the claim has it, a failure of azureFindAccount.
C11_StepKeepsFatalError ==
    /\ (pc = "AccountsClientAuth" /\ subRet.err = ErrNoDefaultSubscription) =>
            (err' = subRet.err /\ pc' = "Done")
    /\ (pc = "AfterFind" /\ IsMalformedOrNotFound(err)) => err' = err

\* C11 as stated: the "no default subscription", "malformed account id" and
\* "account not found" errors reach the caller of AzureBlobConfig unchanged,
\* never replaced by another error such as "missing key".
C11_FatalErrorsVerbatim == [][C11_StepKeepsFatalError]_vars

\* The failure of the subscription lookup ends the call with that error; a
\* failure of azureFindAccount ends the call with the "missing key" error
\* when the key is empty and stays in err otherwise; nothing after the
\* discovery assigns err.
C11_StepHandsErrorOn ==
    /\ (pc = "AccountsClientAuth" /\ subRet.err # Nil) =>
            (err' = subRet.err /\ pc' = "Done")
    /\ (pc = "AfterFind" /\ IsMalformedOrNotFound(err)) =>
            IF key = "" THEN err' = ErrMissingKey(configDir) /\ pc' = "Done"
            ELSE err' = err /\ pc' = "Synthesize"
    /\ pc \in {"Synthesize", "Finish"} => err' = err

\* A call that returns one of the errors of azureFindAccount had the key
\* before the discovery and has filled its result in.
C11_FindErrorOnlyWithKey ==
    (entry = "AzureBlobConfig" /\ pc = "Done" /\ IsMalformedOrNotFound(err)) =>
        /\ key # ""
        /\ ~HasCall("client.ListKeys")
        /\ ResultFilled

\* C11 amended: the "no default subscription" error is returned to the caller
\* unchanged; a "malformed account id" or "account not found" error is
\* replaced by the "missing key" error when the key is empty, and is
\* returned unchanged (together with the filled-in config) when the key is
\* known.
C11_FatalErrorsHandedOn == []C11_FindErrorOnlyWithKey /\ [][C11_StepHandsErrorOn]_vars

\* C11 witness: a call that needed the control plane returned the "no default
\* subscription" error of the profile lookup.
C11_Witness ==
    /\ entry = "AzureBlobConfig"
    /\ pc = "Done"
    /\ DiscoveryEntered
    /\ err = ErrNoDefaultSubscription
    /\ ~HasCall("client.List")

\* ---------------------------------------------------------------------------
\* C12.

\* AzureBlobConfig returned without error.
ReturnedWithoutError == entry = "AzureBlobConfig" /\ pc = "Done" /\ err = Nil

\* C12: a call of AzureBlobConfig that returns without error returns a config
\* with a non-empty account name, endpoint and account key, no SAS token
\* provider, and the renewal buffer of 15 minutes.  (Every key value the
\* control plane of the model hands out is non-empty, as the claim assumes.)
C12_ResultComplete ==
    ReturnedWithoutError =>
        /\ config.AccountName # ""
        /\ config.Endpoint # ""
        /\ config.AccountKey # ""
        /\ config.SasToken = Nil
        /\ config.TokenRenewBuffer = TokenRenewBufferMinutes

\* C12 witness: a call without a key in the environment or the config file
\* returned without error with a key of the control plane.
C12_Witness ==
    /\ ReturnedWithoutError
    /\ envKey = ""
    /\ HasCall("client.ListKeys")
    /\ config.AccountKey \in {"A", "B"}
    /\ config.TokenRenewBuffer = 15

\* ---------------------------------------------------------------------------
\* C13.

\* The wasb argument carries a hint that replaced the endpoint (line 261).
HintTaken ==
    /\ Index(argWasb, "@") # -1
    /\ ParseURL("https://" \o Slice(argWasb, Index(argWasb, "@") + 1, Len(argWasb))).ok

\* The account names a config file of the model may hold.
IniAccounts == {sec["account"] : sec \in {x \in StorageSections : "account" \in DOMAIN x}}

\* The account name as the environment or, failing that, the config file
\* gives it.
FromEnvOrFile(name) ==
    IF envAccount # "" THEN name = envAccount ELSE name \in IniAccounts

\* The endpoint after step 1 is neither empty nor the emulator address and
\* its hostname has a dot.
EndpointHasDot ==
    /\ EffectiveEndpoint \notin {"", EmulatorEndpoint}
    /\ Index(Hostname(ParseURL(EffectiveEndpoint)), ".") # -1

\* The first dot-delimited label of the hostname of the endpoint after step 1.
FirstLabel ==
    Slice(Hostname(ParseURL(EffectiveEndpoint)), 0,
          Index(Hostname(ParseURL(EffectiveEndpoint)), "."))

\* C13 as stated: with the emulator address as endpoint the returned account
\* name is the one of the environment or the config file, and with any other
\* non-empty endpoint whose hostname has a dot it is the hostname's first
\* label.
C13_EmulatorKeptOthersLabel ==
    (entry = "AzureBlobConfig" /\ ResultFilled) =>
        /\ EffectiveEndpoint = EmulatorEndpoint => FromEnvOrFile(config.AccountName)
        /\ EndpointHasDot => config.AccountName = FirstLabel

\* C13 amended: the emulator address is never decomposed and is only ever
\* the explicit endpoint (an endpoint taken from the hint starts with
\* "https://", so it is decomposed even when it names the emulator's host);
\* with any other non-empty endpoint whose hostname has a dot the returned
\* account name is the hostname's first label when that label is non-empty,
\* and otherwise comes from the config file.
C13_EmulatorKeptOthersNonEmptyLabel ==
    /\ (entry = "AzureBlobConfig" /\ pc = "ParseEndpoint" /\ Index(argWasb, "@") # -1) =>
            IF HintTaken
            THEN /\ endpoint = EffectiveEndpoint
                 /\ HasPrefix(endpoint, "https://")
                 /\ endpoint # EmulatorEndpoint
            ELSE endpoint = argEndpoint
    /\ (entry = "AzureBlobConfig" /\ ResultFilled) =>
        /\ EffectiveEndpoint = EmulatorEndpoint =>
                (~HintTaken /\ FromEnvOrFile(config.AccountName))
        /\ EndpointHasDot =>
                IF FirstLabel # "" THEN config.AccountName = FirstLabel
                ELSE config.AccountName \in IniAccounts

\* C13 witness: a call with the emulator address as explicit endpoint
\* returned the account name of the environment.
C13_Witness ==
    /\ entry = "AzureBlobConfig"
    /\ ResultFilled
    /\ argEndpoint = EmulatorEndpoint
    /\ EffectiveEndpoint = EmulatorEndpoint
    /\ envAccount # ""
    /\ config.AccountName = envAccount
    /\ config.Endpoint = EmulatorEndpoint

\* ---------------------------------------------------------------------------
\* C14.

\* azureDefaultSubscription has read the profile and its result is at hand.
ProfileRead ==
    /\ profile # Absent
    /\ profile.pathErr = Nil
    /\ profile.loadErr = Nil

\* C14: azureDefaultSubscription returns the first entry of the profile, in
\* profile order, that is flagged default; with no entry flagged default it
\* returns the "no default subscription" error and no subscription.
C14_FirstDefaultOrError ==
    ProfileRead =>
        IF \E i \in DOMAIN profile.Subscriptions : profile.Subscriptions[i].IsDefault
        THEN /\ subRet.err = Nil
             /\ \E i \in DOMAIN profile.Subscriptions :
                    /\ profile.Subscriptions[i].IsDefault
                    /\ \A j \in 1..(i - 1) : ~profile.Subscriptions[j].IsDefault
                    /\ subRet.sub = profile.Subscriptions[i]
        ELSE /\ subRet.err = ErrNoDefaultSubscription
             /\ subRet.sub = NoSubscription

\* C14 witness: a profile whose first entry is not flagged default and whose
\* second entry is; the second entry was returned.
C14_Witness ==
    /\ ProfileRead
    /\ Len(profile.Subscriptions) = 2
    /\ ~profile.Subscriptions[1].IsDefault
    /\ profile.Subscriptions[2].IsDefault
    /\ subRet.err = Nil
    /\ subRet.sub = profile.Subscriptions[2]

\* ---------------------------------------------------------------------------
\* C15.

\* Lines 332-340 have just run on the key list the control plane returned.
KeySelected ==
    /\ entry = "AzureBlobConfig"
    /\ pc = "Synthesize"
    /\ keysRes # Absent

\* C15 as stated: with a full-permission key in the list the selected key is
\* the value of the first full-permission key; otherwise it is the value of
\* the first key.
C15_FullKeyPreferred ==
    KeySelected =>
        IF \E i \in DOMAIN keysRes.Keys : keysRes.Keys[i].Permissions = "Full"
        THEN \E i \in DOMAIN keysRes.Keys :
                /\ keysRes.Keys[i].Permissions = "Full"
                /\ \A j \in 1..(i - 1) : keysRes.Keys[j].Permissions # "Full"
                /\ key = keysRes.Keys[i].Value
        ELSE key = keysRes.Keys[1].Value

\* ---------------------------------------------------------------------------
\* C18.

\* The key selected at lines 332-340 is the one the call returns.
C18_StepKeepsSelectedKey ==
    /\ (KeySelected /\ pc' = "Finish") => key' = key
    /\ (entry = "AzureBlobConfig" /\ pc = "Finish") => config'.AccountKey = key

\* The key selected from a non-empty list is the value of its first entry.
C18_FirstKeySelected == KeySelected => key = keysRes.Keys[1].Value

CacheScanned ==
    /\ accessTokens # Absent
    /\ accessTokens.loadErr = Nil

\* The positions handed to tokenToAuthorizer, in the order of the calls.
ConvertedSeq ==
    LET cs == SelectSeq(calls, LAMBDA c : c[2] = "tokenToAuthorizer")
    IN  [k \in DOMAIN cs |-> cs[k][3]]

ConvertedSet == {ConvertedSeq[k] : k \in DOMAIN ConvertedSeq}

\* The token at position i carries exactly the authority looked for.
Matches(i) == accessTokens.tokens[i].Authority = adEndpoint

\* The token at position i matches and its conversion succeeds.
Converts(i) == Matches(i) /\ tokenToAuthorizer(accessTokens.tokens[i]).err = Nil

\* C16: the authority looked for is trim(activeDirectoryEndpoint, "/") + "/"
\* + tenantId; tokens are converted in cache order and only when their
\* authority equals it; a failed conversion does not end the scan; the
\* authorizer of the first matching token that converts is returned and no
\* token after it is converted.
C16_FirstConvertingMatch ==
    CacheScanned =>
        /\ adEndpoint = Trim(env.Values["ActiveDirectoryEndpoint"], "/") \o "/" \o tenantId
        /\ \A k \in 1..(Len(ConvertedSeq) - 1) : ConvertedSeq[k] < ConvertedSeq[k + 1]
        /\ IF \E i \in DOMAIN accessTokens.tokens : Converts(i)
           THEN \E f \in DOMAIN accessTokens.tokens :
                    /\ Converts(f)
                    /\ \A j \in 1..(f - 1) : ~Converts(j)
                    /\ ConvertedSet = {i \in 1..f : Matches(i)}
                    /\ pc = "AuthReturn"
                    /\ authRet.err = Nil
                    /\ authRet.authorizer =
                            tokenToAuthorizer(accessTokens.tokens[f]).authorizer
           ELSE ConvertedSet = {i \in DOMAIN accessTokens.tokens : Matches(i)}

\* C16 witness: the first matching token failed to convert, the scan went
\* on, and the authorizer of the second matching token was returned.
C16_Witness ==
    /\ CacheScanned
    /\ Len(accessTokens.tokens) = 2
    /\ Matches(1) /\ ~Converts(1)
    /\ Converts(2)
    /\ ConvertedSeq = <<1, 2>>
    /\ authRet.err = Nil
    /\ authRet.authorizer.source = "cli.Token"

\* ---------------------------------------------------------------------------
\* C17.

\* azureFindAccount has listed the accounts and its results are at hand (in
\* endpoint, resourceGroup and err, line 313).
AccountsListed ==
    /\ entry = "AzureBlobConfig"
    /\ pc = "AfterFind"
    /\ accountsRes # Absent
    /\ accountsRes.err = Nil

\* The listed account at position i is the first with the requested name.
FirstNamed(i) ==
    /\ accountsRes.Value[i].Name = account
    /\ \A j \in 1..(i - 1) : accountsRes.Value[j].Name # account

\* All slash-separated segments of a resource identifier.
Segments(id) == SplitN(id, "/", Len(id) + 1)

\* azureFindAccount failed with error e.
FindFailed(e) == endpoint = "" /\ resourceGroup = "" /\ err = e

\* C17 as stated: the first listed account with the requested name decides;
\* an identifier of fewer or of more than 6 segments gives the "malformed
\* account id" error, one of exactly 6 segments gives the blob endpoint and
\* segment 4 (counted from 0); without a match the error is "account not
\* found".
C17_ExactlySixSegments ==
    AccountsListed =>
        IF \E i \in DOMAIN accountsRes.Value : accountsRes.Value[i].Name = account
        THEN \E i \in DOMAIN accountsRes.Value :
                /\ FirstNamed(i)
                /\ IF Len(Segments(accountsRes.Value[i].ID)) # 6
                   THEN FindFailed(ErrMalformedAccountId(accountsRes.Value[i].ID))
                   ELSE /\ endpoint = accountsRes.Value[i].Blob
                        /\ resourceGroup = Segments(accountsRes.Value[i].ID)[5]
                        /\ err = Nil
        ELSE FindFailed(ErrAccountNotFound(account))

\* C17 amended: the first listed account with the requested name decides; an
\* identifier of fewer than 6 segments gives the "malformed account id"
\* error, one of 6 or more segments gives the blob endpoint and segment 4
\* (counted from 0); without a match the error is "account not found".
C17_AtLeastSixSegments ==
    AccountsListed =>
        IF \E i \in DOMAIN accountsRes.Value : accountsRes.Value[i].Name = account
        THEN \E i \in DOMAIN accountsRes.Value :
                /\ FirstNamed(i)
                /\ IF Len(Segments(accountsRes.Value[i].ID)) < 6
                   THEN FindFailed(ErrMalformedAccountId(accountsRes.Value[i].ID))
                   ELSE /\ endpoint = accountsRes.Value[i].Blob
                        /\ resourceGroup = Segments(accountsRes.Value[i].ID)[5]
                        /\ err = Nil
        ELSE FindFailed(ErrAccountNotFound(account))

\* C17 witness: the requested account is listed with a full resource
\* identifier of 9 segments and its resource group was returned.
C17_Witness ==
    /\ AccountsListed
    /\ Len(accountsRes.Value) = 2
    /\ accountsRes.Value[1].Name # account
    /\ accountsRes.Value[2].Name = account
    /\ Len(Segments(accountsRes.Value[2].ID)) = 9
    /\ endpoint = accountsRes.Value[2].Blob
    /\ resourceGroup = "rg1"
    /\ err = Nil

\* ---------------------------------------------------------------------------
\* C19.

\* The number of times the ini file was loaded.
IniLoads == Len(SelectSeq(calls, LAMBDA c : c[2] = "ini.Load"))

\* The step of lines 281-300 loads the ini file exactly when the account
\* name or the key is empty, leaves a non-empty account name and a non-empty
\* key as they are, and neither assigns err nor ends the call; no other step
\* loads the file.
C19_StepReadsFileWhenNeeded ==
    entry = "AzureBlobConfig" =>
        IF pc = "LoadConfig"
        THEN /\ (account = "" \/ key = "") <=> calls' = Called("AzureBlobConfig", "ini.Load")
             /\ (account # "" /\ key # "") => calls' = calls
             /\ account # "" => account' = account
             /\ key # "" => key' = key
             /\ err' = err
             /\ pc' = "CheckAccount"
        ELSE calls' = calls \/ calls'[Len(calls')][2] # "ini.Load"

\* C19: the config file is read only when the account name or the key is
\* still empty after steps 1-2; its values fill only what is empty, and a
\* missing file, section or key causes no error by itself.
C19_ConfigFileFillsOnly == [][C19_StepReadsFileWhenNeeded]_vars

\* C19 witness: the account name came from the endpoint's hostname, the key
\* was missing, the file was read, and it gave the key but did not replace
\* the account name.
C19_Witness ==
    /\ entry = "AzureBlobConfig"
    /\ pc = "CheckAccount"
    /\ IniLoads = 1
    /\ envAccount = ""
    /\ envKey = ""
    /\ account = "epacct"
    /\ key = "inikey"
    /\ err = Nil

\* ---------------------------------------------------------------------------
\* C20.

\* A call that has returned returned what it returns when it runs alone from
\* its entry with the same arguments against the same collaborators.
C20_ResultAsAlone ==
    entry = "concurrent" =>
        \A c \in Calls :
            ppc[c] = "Done" =>
                results[c] = RunAlone("GetEnv", InitFrame(pargs[c]), world)

\* No step of a call changes what a collaborator holds.
C20_StepReadsOnly == entry = "concurrent" => world' = world

\* C20: under every interleaving of two concurrent calls each call returns
\* the config and the error it returns when run alone against the same
\* collaborators, and no call modifies a collaborator.
C20_CallsIndependent == []C20_ResultAsAlone /\ [][C20_StepReadsOnly]_vars

\* C20 witness: both calls have returned, with different arguments and
\* different results, one of them with the key the control plane gave.
C20_Witness ==
    /\ entry = "concurrent"
    /\ \A c \in Calls : ppc[c] = "Done"
    /\ results[1].err = Nil
    /\ results[1].config.AccountKey = "B"
    /\ pargs[1] # pargs[2]
    /\ results[1].config.Container = ""
    /\ results[2].config.Container = "cont"
    /\ results[1] # results[2]

====
